---- MODULE Spec2Model ----
(***************************************************************************)
(* Loop-invariant code motion, src/LICM/LICMNA.cpp.                        *)
(*                                                                         *)
(* The function under transformation is a loop nest in loop-simplify form: *)
(*                                                                         *)
(*   E -> OP -> OH -> IP -> IH -> IB -> IH        (inner back edge)        *)
(*              OH -> X2    IH -> OL -> OH        (outer back edge)        *)
(*                                OL -> X1                                 *)
(*                                                                         *)
(* outer = {OH, IP, IH, IB, OL}, preheader OP, exit blocks X1 and X2;      *)
(* inner = {IH, IB},             preheader IP, exit block  OL.             *)
(* OH dominates both exits of outer, OL only X1; IH dominates the exit of  *)
(* inner, IB does not.                                                     *)
(***************************************************************************)
EXTENDS Integers, Sequences, FiniteSets, TLC

\* Number of instructions whose placement, opcode and operands are inputs.
NumInstrs == 2
\* Length of an instruction's operand list.
MaxOperands == 2
\* How many times the pass is scheduled on each loop.
MaxPasses == 2

Range(s) == {s[k] : k \in 1..Len(s)}

RECURSIVE SetToSeq(_)
SetToSeq(S) ==
  IF S = {} THEN <<>>
  ELSE LET m == CHOOSE x \in S : \A y \in S : x <= y
       IN <<m>> \o SetToSeq(S \ {m})

(***************************************************************************)
(* The control-flow graph, the loop structure and the dominator tree: the  *)
(* analyses the pass requires (getAnalysisUsage).                          *)
(***************************************************************************)
BlockOrder == <<"E", "OP", "OH", "IP", "IH", "IB", "OL", "X1", "X2">>
Blocks == Range(BlockOrder)
BlockIndex(b) == CHOOSE k \in 1..Len(BlockOrder) : BlockOrder[k] = b

Succ ==
  [b \in Blocks |->
     CASE b = "E"  -> {"OP"}
       [] b = "OP" -> {"OH"}
       [] b = "OH" -> {"IP", "X2"}
       [] b = "IP" -> {"IH"}
       [] b = "IH" -> {"IB", "OL"}
       [] b = "IB" -> {"IH"}
       [] b = "OL" -> {"OH", "X1"}
       [] OTHER    -> {}]

Loops == {"inner", "outer"}
LoopBlocks == [L \in Loops |->
                 IF L = "inner" THEN {"IH", "IB"}
                 ELSE {"OH", "IP", "IH", "IB", "OL"}]
Preheader == [L \in Loops |-> IF L = "inner" THEN "IP" ELSE "OP"]
SubLoops == [L \in Loops |-> IF L = "outer" THEN {"inner"} ELSE {}]

\* Loop::contains(BB)
contains(L, BB) == BB \in LoopBlocks[L]

\* LoopInfo::getLoopFor(BB): the innermost loop BB is in ("none" outside loops)
getLoopFor(BB) ==
  IF BB \in LoopBlocks["inner"] THEN "inner"
  ELSE IF BB \in LoopBlocks["outer"] THEN "outer" ELSE "none"

\* Loop::getUniqueExitBlocks: successors of member blocks outside the loop
ExitBlocks(L) ==
  {x \in Blocks \ LoopBlocks[L] : \E b \in LoopBlocks[L] : x \in Succ[b]}
getUniqueExitBlocks(L) ==
  LET idx == {BlockIndex(x) : x \in ExitBlocks(L)}
      s == SetToSeq(idx)
  IN [k \in 1..Len(s) |-> BlockOrder[s[k]]]

RECURSIVE ReachAvoiding(_, _)
ReachAvoiding(S, a) ==
  LET N == S \cup {t \in Blocks \ {a} : \E s \in S : t \in Succ[s]}
  IN IF N = S THEN S ELSE ReachAvoiding(N, a)

\* DominatorTree::dominates(A, B) on blocks: every path from the entry to B
\* passes through A.
DomSet ==
  {p \in Blocks \X Blocks :
     p[1] = p[2] \/ p[2] \notin ReachAvoiding({"E"} \ {p[1]}, p[1])}
dominates(A, B) == <<A, B>> \in DomSet

StrictDoms(b) == {a \in Blocks \ {b} : dominates(a, b)}
IDom(b) == CHOOSE d \in StrictDoms(b) : \A a \in StrictDoms(b) : dominates(a, d)
DomChildren(d) ==
  LET idx == {BlockIndex(b) : b \in {c \in Blocks \ {"E"} : IDom(c) = d}}
      s == SetToSeq(idx)
  IN [k \in 1..Len(s) |-> BlockOrder[s[k]]]

RECURSIVE PreOrder(_)
RECURSIVE PreOrderAll(_, _)
PreOrderAll(cs, k) ==
  IF k > Len(cs) THEN <<>> ELSE PreOrder(cs[k]) \o PreOrderAll(cs, k + 1)
PreOrder(b) == <<b>> \o PreOrderAll(DomChildren(b), 1)

\* mutant of DomTreeNodes: the blocks are visited children-first
DomTreeNodesReversed ==
  LET s == PreOrder("E") IN [k \in 1..Len(s) |-> s[Len(s) + 1 - k]]

\* GraphTraits<DominatorTree *>::nodes_begin .. nodes_end: depth-first
\* preorder of the dominator tree from its root
DomTreeNodes == PreOrder("E")

(***************************************************************************)
(* Instructions.  1..NumInstrs are the input instructions of the loop      *)
(* bodies; the others are the fixed skeleton of the function.              *)
(***************************************************************************)
Instrs == 1..NumInstrs
PreA == NumInstrs + 1        \* in OP: binary on an argument and a constant
PreB == NumInstrs + 2        \* in OP: a load
InnerPre == NumInstrs + 3    \* in IP: a call
IndVar == NumInstrs + 4      \* in OH: the induction variable's phi
IndVarNext == NumInstrs + 5  \* in OL: the induction variable's update
Term(b) == NumInstrs + 5 + BlockIndex(b)
Terminators == {Term(b) : b \in Blocks}
FixedInstrs == {PreA, PreB, InnerPre, IndVar, IndVarNext} \cup Terminators
AllInstrs == Instrs \cup FixedInstrs

Opcodes == {"binary", "shift", "cast", "gep", "select",
            "mem", "call", "control", "other"}

Const == [kind |-> "const", id |-> 0]
Arg == [kind |-> "arg", id |-> 0]
Inst(i) == [kind |-> "inst", id |-> i]

\* BB->end()
End == 0

VARIABLES
  blocks,       \* block -> its instructions in program order
  opcode,       \* instruction -> opcode category
  operands,     \* instruction -> operand list
  specSafe,     \* instruction -> answer of isSafeToSpeculativelyExecute
  Instructions, \* the list runOnLoop's last invocation filled
  Modified,     \* what the last invocation returned
  examined,     \* the instructions the last invocation bound to I, in order
  runs,         \* the loops the pass has run on, in order
  pre,          \* blocks as they were when the last invocation started
  preOperands,  \* operands as they were when the last invocation started
  orig          \* blocks as they were before the pass first ran

vars == <<blocks, opcode, operands, specSafe, Instructions, Modified,
          examined, runs, pre, preOperands, orig>>

BlockOf(bl, i) == CHOOSE b \in Blocks : \E k \in 1..Len(bl[b]) : bl[b][k] = i
IndexOf(s, x) == CHOOSE k \in 1..Len(s) : s[k] = x
Remove(s, x) == SelectSeq(s, LAMBDA y : y # x)

\* BasicBlock::getTerminator
getTerminator(bl, b) == bl[b][Len(bl[b])]

\* BasicBlock::begin
begin(bl, b) == IF bl[b] = <<>> THEN End ELSE bl[b][1]

\* ++it on an instruction-list iterator: the node after I in the list I is in
NextInstr(bl, I) ==
  LET b == BlockOf(bl, I)
      k == IndexOf(bl[b], I)
  IN IF k = Len(bl[b]) THEN End ELSE bl[b][k + 1]

\* mutant of moveBefore: the instruction is put at the top of the block
moveToFront(bl, I, Dest) ==
  LET src == BlockOf(bl, I)
      removed == [bl EXCEPT ![src] = Remove(@, I)]
      dst == BlockOf(removed, Dest)
  IN [removed EXCEPT ![dst] = <<I>> \o @]

\* mutant of moveBefore: the instruction is put after the destination
moveAfter(bl, I, Dest) ==
  LET src == BlockOf(bl, I)
      removed == [bl EXCEPT ![src] = Remove(@, I)]
      dst == BlockOf(removed, Dest)
      k == IndexOf(removed[dst], Dest)
  IN [removed EXCEPT
        ![dst] = SubSeq(@, 1, k) \o <<I>> \o SubSeq(@, k + 1, Len(@))]

\* Instruction::moveBefore: unlink I and insert it right before Dest
moveBefore(bl, I, Dest) ==
  LET src == BlockOf(bl, I)
      removed == [bl EXCEPT ![src] = Remove(@, I)]
      dst == BlockOf(removed, Dest)
      k == IndexOf(removed[dst], Dest)
  IN [removed EXCEPT
        ![dst] = SubSeq(@, 1, k - 1) \o <<I>> \o SubSeq(@, k, Len(@))]

\* mutant of isInSubLoop: a child loop's preheader counts as the child's
isInSubLoopOrPreheader(L, BB) ==
  getLoopFor(BB) # L \/ \E C \in SubLoops[L] : Preheader[C] = BB

isInSubLoop(L, BB) ==
  LET ParentLoop == getLoopFor(BB) IN L # ParentLoop

\* mutant of checkInstructionType: casts and address computations forgotten
checkInstructionTypeNarrow(I) ==
  opcode[I] = "binary" \/ opcode[I] = "shift" \/ opcode[I] = "select"

\* mutant of checkInstructionType: loads accepted too
checkInstructionTypeLoads(I) ==
  opcode[I] = "binary" \/ opcode[I] = "shift" \/ opcode[I] = "select"
    \/ opcode[I] = "cast" \/ opcode[I] = "gep" \/ opcode[I] = "mem"

checkInstructionType(I) ==
  opcode[I] = "binary" \/ opcode[I] = "shift" \/ opcode[I] = "select"
    \/ opcode[I] = "cast" \/ opcode[I] = "gep"

\* Loop::isLoopInvariant(V): an instruction outside the loop, or no instruction
LoopIsLoopInvariant(L, bl, V) ==
  IF V.kind = "inst" THEN ~contains(L, BlockOf(bl, V.id)) ELSE TRUE

\* mutant of checkInstructionOperands: the verdict of the last operand wins
checkLastOperand(L, bl, I) ==
  LET n == Len(operands[I])
  IN n = 0 \/ operands[I][n].kind = "const"
       \/ LoopIsLoopInvariant(L, bl, operands[I][n])

checkInstructionOperands(L, bl, I) ==
  \A k \in 1..Len(operands[I]) :
    operands[I][k].kind = "const" \/ LoopIsLoopInvariant(L, bl, operands[I][k])

isLoopInvariant(L, bl, I) ==
  checkInstructionType(I) /\ checkInstructionOperands(L, bl, I)

isSafeToSpeculativelyExecute(I) == specSafe[I]

RECURSIVE AccumulateDominates(_, _, _, _)
AccumulateDominates(Dominates, Exits, k, Parent) ==
  IF k > Len(Exits) THEN Dominates
  ELSE AccumulateDominates(Dominates /\ dominates(Parent, Exits[k]),
                           Exits, k + 1, Parent)

\* mutant of dominatesExits: one dominated exit is enough
dominatesSomeExit(L, bl, I) ==
  \E x \in ExitBlocks(L) : dominates(BlockOf(bl, I), x)

dominatesExits(L, bl, I) ==
  LET Exits == getUniqueExitBlocks(L)
      Parent == BlockOf(bl, I)
  IN AccumulateDominates(FALSE, Exits, 1, Parent)

safeToHoist(L, bl, I) ==
  isSafeToSpeculativelyExecute(I) \/ dominatesExits(L, bl, I)

\* mutant of visit: the iterator is advanced after the instruction has moved
visitAdvanceLate(L, Destination, st, I) ==
  LET seen == [st EXCEPT !.examined = Append(@, I)]
      out == IF isLoopInvariant(L, st.blocks, I) /\ safeToHoist(L, st.blocks, I)
             THEN [seen EXCEPT !.Modified = TRUE,
                               !.blocks = moveBefore(@, I, Destination),
                               !.Instructions = Append(@, I)]
             ELSE seen
  IN [st |-> out, it |-> NextInstr(out.blocks, I)]

\* One iteration of the instruction loop: bind I, advance the iterator, then
\* hoist I if it is invariant and safe.
visit(L, Destination, st, I) ==
  LET it == NextInstr(st.blocks, I)
      seen == [st EXCEPT !.examined = Append(@, I)]
      out == IF isLoopInvariant(L, st.blocks, I) /\ safeToHoist(L, st.blocks, I)
             THEN [seen EXCEPT !.Modified = TRUE,
                               !.blocks = moveBefore(@, I, Destination),
                               !.Instructions = Append(@, I)]
             ELSE seen
  IN [st |-> out, it |-> it]

RECURSIVE scanBlock(_, _, _, _)
scanBlock(L, Destination, st, it) ==
  IF it = End THEN st
  ELSE LET r == visit(L, Destination, st, it)
       IN scanBlock(L, Destination, r.st, r.it)

RECURSIVE scanNodes(_, _, _, _)
scanNodes(L, Destination, st, node) ==
  IF node > Len(DomTreeNodes) THEN st
  ELSE LET BB == DomTreeNodes[node]
       IN IF ~contains(L, BB) \/ isInSubLoop(L, BB)
          THEN scanNodes(L, Destination, st, node + 1)
          ELSE scanNodes(L, Destination,
                         scanBlock(L, Destination, st, begin(st.blocks, BB)),
                         node + 1)

hoistInstructions(L, bl) ==
  LET Destination == getTerminator(bl, Preheader[L])
  IN scanNodes(L, Destination,
               [blocks |-> bl, Instructions |-> <<>>, examined |-> <<>>,
                Modified |-> FALSE],
               1)

(***************************************************************************)
(* The loop pass manager takes the loops innermost first and runs every    *)
(* scheduled instance of the pass on a loop before it goes on to the       *)
(* parent; the pass is scheduled MaxPasses times.                          *)
(***************************************************************************)
Count(s, x) == Cardinality({k \in 1..Len(s) : s[k] = x})

runOnLoop(L) ==
  /\ Count(runs, L) < MaxPasses
  /\ \A C \in SubLoops[L] : Count(runs, C) = MaxPasses
  /\ LET r == hoistInstructions(L, blocks)
     IN /\ blocks' = r.blocks
        /\ Instructions' = r.Instructions
        /\ examined' = r.examined
        /\ Modified' = r.Modified
  /\ pre' = blocks
  /\ preOperands' = operands
  /\ runs' = Append(runs, L)
  /\ UNCHANGED <<opcode, operands, specSafe, orig>>

(***************************************************************************)
(* Initial states: the function before the pass runs.                      *)
(***************************************************************************)
PlaceBlocks == {"OH", "IH", "IB", "OL"}
FlowBlocks == {"OH", "IB", "OL"}
FlowKinds == {<<"binary", TRUE>>, <<"binary", FALSE>>, <<"mem", TRUE>>}
UsesOf(i) == {S \in SUBSET (Instrs \ {i}) : Cardinality(S) <= MaxOperands}
UsesChoices ==
  {u \in [Instrs -> SUBSET Instrs] : \A i \in Instrs : u[i] \in UsesOf(i)}
Padding == <<Inst(PreA), Const, Arg>>

OperandList(S) ==
  LET s == SetToSeq(S)
      n == Len(s)
  IN [k \in 1..MaxOperands |->
        IF k <= n THEN Inst(s[k]) ELSE Padding[((k - n - 1) % 3) + 1]]

FixedOpcode(i) ==
  CASE i = PreA -> "binary"
    [] i = PreB -> "mem"
    [] i = InnerPre -> "call"
    [] i = IndVar -> "other"
    [] i = IndVarNext -> "binary"
    [] OTHER -> "control"

FixedOperands(i) ==
  CASE i = PreA -> <<Arg, Const>>
    [] i = PreB -> <<Inst(PreA)>>
    [] i = InnerPre -> <<Inst(PreA)>>
    [] i = IndVar -> <<Const, Inst(IndVarNext)>>
    [] i = IndVarNext -> <<Inst(IndVar), Const>>
    [] i = Term("OL") -> <<Inst(IndVarNext)>>
    [] OTHER -> <<>>

FixedSafe(i) == i \in {PreA, IndVarNext}

Layout(place) ==
  [b \in Blocks |->
     (CASE b = "OP" -> <<PreA, PreB>>
        [] b = "IP" -> <<InnerPre>>
        [] b = "OH" -> <<IndVar>>
        [] b = "OL" -> <<IndVarNext>>
        [] OTHER -> <<>>)
     \o SetToSeq({i \in Instrs : place[i] = b})
     \o <<Term(b)>>]

Program(place, opc, safe, uses) ==
  /\ blocks = Layout(place)
  /\ opcode = [i \in AllInstrs |-> IF i \in Instrs THEN opc[i] ELSE FixedOpcode(i)]
  /\ operands = [i \in AllInstrs |->
                   IF i \in Instrs THEN OperandList(uses[i]) ELSE FixedOperands(i)]
  /\ specSafe = [i \in AllInstrs |-> IF i \in Instrs THEN safe[i] ELSE FixedSafe(i)]

\* every input instruction is safe arithmetic, trapping arithmetic or a load,
\* in the outer header, the inner body or the outer latch, on any of the others
InitFlow ==
  \E place \in [Instrs -> FlowBlocks], kind \in [Instrs -> FlowKinds],
     uses \in UsesChoices :
       Program(place, [i \in Instrs |-> kind[i][1]],
               [i \in Instrs |-> kind[i][2]], uses)

\* instruction 1 is of any opcode category, in any block of the loops; the
\* others are safe arithmetic on values from outside the loops, in the inner
\* loop's body
InitOpcode ==
  \E b \in PlaceBlocks, o \in Opcodes, s \in BOOLEAN, u \in UsesOf(1) :
     Program([i \in Instrs |-> IF i = 1 THEN b ELSE "IB"],
             [i \in Instrs |-> IF i = 1 THEN o ELSE "binary"],
             [i \in Instrs |-> IF i = 1 THEN s ELSE TRUE],
             [i \in Instrs |-> IF i = 1 THEN u ELSE {}])

Init ==
  /\ InitFlow \/ InitOpcode
  /\ Instructions = <<>>
  /\ Modified = FALSE
  /\ examined = <<>>
  /\ runs = <<>>
  /\ pre = blocks
  /\ preOperands = operands
  /\ orig = blocks

Next == \E L \in Loops : runOnLoop(L)

Spec == Init /\ [][Next]_vars

(***************************************************************************)
(* Vocabulary of the properties.                                           *)
(***************************************************************************)
ran == runs # <<>>
last == runs[Len(runs)]
hoisted == Range(Instructions)

EligibleCategories == {"binary", "shift", "cast", "gep", "select"}
ExcludedCategories == {"mem", "call", "control", "other"}

\* the blocks of L that are in no child loop of L
OwnBlocks(L) ==
  {b \in LoopBlocks[L] : \A C \in SubLoops[L] : b \notin LoopBlocks[C]}

\* block b dominates every exit block of L (true of a loop without exits)
AllExitsDominated(L, b) == \A x \in ExitBlocks(L) : dominates(b, x)

InstOperands(i) ==
  {operands[i][k].id : k \in {j \in 1..Len(operands[i]) : operands[i][j].kind = "inst"}}

\* every operand of i is a constant, an argument or defined outside L
OperandsOutside(L, bl, i) ==
  \A d \in InstOperands(i) : BlockOf(bl, d) \notin LoopBlocks[L]

\* static single assignment: a definition dominates its uses (a phi's uses
\* sit at the end of the incoming blocks)
DefDominatesUse(bl, d, i) ==
  LET bd == BlockOf(bl, d)
      bu == BlockOf(bl, i)
  IN IF bd = bu THEN IndexOf(bl[bd], d) < IndexOf(bl[bu], i)
     ELSE dominates(bd, bu)
WellFormed(bl) ==
  \A i \in AllInstrs \ {IndVar} : \A d \in InstOperands(i) : DefDominatesUse(bl, d, i)

\* the control-flow edges as the terminators at the ends of the blocks give them
Targets ==
  [i \in AllInstrs |-> UNION {Succ[b] : b \in {c \in Blocks : Term(c) = i}}]
CFGEdges(bl) == [b \in Blocks |-> Targets[bl[b][Len(bl[b])]]]

(***************************************************************************)
(* C1: safeToHoist accepts every instruction whose block dominates every   *)
(* exit block of the loop, also when the speculation oracle rejects it, so *)
(* that an eligible instruction on values from outside the loop in such a  *)
(* block is hoisted.  Stated for the instructions on which the driver      *)
(* calls safeToHoist.                                                      *)
(***************************************************************************)
C1_DominanceBranchAccepts ==
  ran =>
    \A i \in Range(examined) :
      ( /\ AllExitsDominated(last, BlockOf(pre, i))
        /\ opcode[i] \in EligibleCategories
        /\ OperandsOutside(last, pre, i) )
      => (safeToHoist(last, pre, i) /\ i \in hoisted)

(***************************************************************************)
(* C2: every instruction an invocation relocates is accepted by the        *)
(* speculation oracle or came from a block that dominates every exit block *)
(* of the loop.                                                            *)
(***************************************************************************)
C2_RelocatedAreSafe ==
  ran =>
    \A i \in hoisted :
      specSafe[i] \/ AllExitsDominated(last, BlockOf(pre, i))

C2_Witness ==
  /\ ran
  /\ \E i \in Range(examined) :
       /\ ~specSafe[i]
       /\ ~AllExitsDominated(last, BlockOf(pre, i))
       /\ opcode[i] \in EligibleCategories
       /\ OperandsOutside(last, pre, i)
       /\ i \notin hoisted
       /\ BlockOf(blocks, i) = BlockOf(pre, i)

(***************************************************************************)
(* C3: an instruction of an eligible opcode category in a block of the     *)
(* loop that is in no child loop, whose operands are all constants or      *)
(* defined outside the loop and which safeToHoist accepts, is in the       *)
(* loop's preheader after the invocation, is in the returned list, and the *)
(* invocation returns true.                                                *)
(***************************************************************************)
C3_InvariantIsHoisted ==
  ran =>
    \A i \in AllInstrs :
      ( /\ BlockOf(pre, i) \in OwnBlocks(last)
        /\ opcode[i] \in EligibleCategories
        /\ OperandsOutside(last, pre, i)
        /\ safeToHoist(last, pre, i) )
      => ( /\ BlockOf(blocks, i) = Preheader[last]
           /\ i \in hoisted
           /\ Modified )

C3_Witness ==
  /\ ran
  /\ \E i \in Instrs :
       /\ BlockOf(pre, i) \in OwnBlocks(last)
       /\ opcode[i] \in {"cast", "gep"}
       /\ OperandsOutside(last, pre, i)
       /\ safeToHoist(last, pre, i)
       /\ BlockOf(blocks, i) = Preheader[last]
       /\ Modified

(***************************************************************************)
(* C4: when an invocation returns, no instruction it relocated has an      *)
(* operand whose defining instruction is still inside the loop.            *)
(***************************************************************************)
C4_NoOperandLeftInLoop ==
  ran =>
    \A i \in hoisted :
      \A d \in InstOperands(i) : BlockOf(blocks, d) \notin LoopBlocks[last]

C4_Witness ==
  /\ ran
  /\ \E i \in Range(examined) :
       /\ opcode[i] \in EligibleCategories
       /\ specSafe[i]
       /\ \E d \in InstOperands(i) : BlockOf(blocks, d) \in LoopBlocks[last]
       /\ \E d \in InstOperands(i) : BlockOf(blocks, d) \notin LoopBlocks[last]
       /\ i \notin hoisted

(***************************************************************************)
(* C5: an instruction whose opcode category is memory access, call,        *)
(* control transfer or other is never relocated, whatever its operands,    *)
(* the oracle's answer and the dominance of its block.                     *)
(***************************************************************************)
C5_ExcludedNeverMove ==
  \A i \in AllInstrs :
    opcode[i] \in ExcludedCategories =>
      /\ BlockOf(blocks, i) = BlockOf(orig, i)
      /\ i \notin hoisted

C5_Witness ==
  /\ ran
  /\ \E i \in Range(examined) :
       /\ opcode[i] = "mem"
       /\ specSafe[i]
       /\ OperandsOutside(last, pre, i)
       /\ AllExitsDominated(last, BlockOf(pre, i))
       /\ BlockOf(blocks, i) = BlockOf(orig, i)

(***************************************************************************)
(* C6: after an invocation the preheader holds what it held before, in the *)
(* same order, then the hoisted instructions in their order of discovery,  *)
(* then its terminator; and a hoisted instruction that uses another        *)
(* hoisted instruction's result comes after it.                            *)
(***************************************************************************)
C6_PreheaderOrder ==
  ran =>
    LET old == pre[Preheader[last]]
        new == blocks[Preheader[last]]
    IN /\ new = SubSeq(old, 1, Len(old) - 1) \o Instructions \o <<old[Len(old)]>>
       /\ \A u \in hoisted, v \in hoisted :
            u \in InstOperands(v) => IndexOf(new, u) < IndexOf(new, v)

C6_Witness ==
  /\ ran
  /\ Len(pre[Preheader[last]]) > 1
  /\ \E u \in hoisted, v \in hoisted :
       /\ u \in InstOperands(v)
       /\ BlockOf(pre, u) # BlockOf(pre, v)

(***************************************************************************)
(* C7: in well-formed SSA form, a second invocation on a loop moves        *)
(* nothing, returns false and an empty list; one invocation leaves no      *)
(* instruction in the loop's own blocks that isLoopInvariant and           *)
(* safeToHoist both accept.                                                *)
(***************************************************************************)
C7_Idempotent ==
  (ran /\ WellFormed(orig)) =>
    /\ Count(runs, last) >= 2 =>
         (Instructions = <<>> /\ ~Modified /\ blocks = pre)
    /\ \A i \in AllInstrs :
         BlockOf(blocks, i) \in OwnBlocks(last) =>
           ~(isLoopInvariant(last, blocks, i) /\ safeToHoist(last, blocks, i))

C7_Witness ==
  /\ ran
  /\ WellFormed(orig)
  /\ Count(runs, last) >= 2
  /\ \E i \in Instrs :
       /\ BlockOf(orig, i) \in OwnBlocks(last)
       /\ BlockOf(pre, i) = Preheader[last]
  /\ \E u \in Instrs, v \in Instrs :
       /\ u \in InstOperands(v)
       /\ BlockOf(orig, u) # BlockOf(orig, v)
       /\ BlockOf(pre, v) = Preheader[last]
  /\ Instructions = <<>>

(***************************************************************************)
(* C8: an instruction an inner invocation moved into the inner preheader   *)
(* is examined by the parent's invocation, and is moved on into the        *)
(* parent's preheader if its operands are defined outside the parent and   *)
(* it is safe (oracle or dominance) with respect to the parent.            *)
(***************************************************************************)
C8_NestedPropagation ==
  ran =>
    \A C \in SubLoops[last] :
      \A i \in Range(pre[Preheader[C]]) :
        BlockOf(orig, i) \in LoopBlocks[C] =>
          /\ i \in Range(examined)
          /\ ( /\ OperandsOutside(last, pre, i)
               /\ (specSafe[i] \/ AllExitsDominated(last, Preheader[C])) )
             => (BlockOf(blocks, i) = Preheader[last] /\ i \in hoisted)

C8_Witness ==
  /\ ran
  /\ \E C \in SubLoops[last] :
       \E i \in Range(pre[Preheader[C]]) :
         /\ BlockOf(orig, i) \in LoopBlocks[C]
         /\ i \in Range(examined)
         /\ OperandsOutside(last, pre, i)
         /\ BlockOf(blocks, i) = Preheader[last]

(***************************************************************************)
(* C9: an invocation examines the instructions that its loop's own blocks  *)
(* held when it started, each exactly once and in the program order of its *)
(* block, whether or not earlier ones were relocated; it examines and      *)
(* moves nothing else, and it completes.                                   *)
(***************************************************************************)
C9_ExaminedOnce ==
  ran =>
    /\ \A b \in OwnBlocks(last) :
         SelectSeq(examined, LAMBDA i : BlockOf(pre, i) = b) = pre[b]
    /\ \A k \in 1..Len(examined) : BlockOf(pre, examined[k]) \in OwnBlocks(last)
    /\ \A i \in AllInstrs :
         BlockOf(pre, i) \notin OwnBlocks(last) =>
           BlockOf(blocks, i) = BlockOf(pre, i)

C9_Witness ==
  /\ ran
  /\ \E b \in OwnBlocks(last) :
       \E k \in 1..(Len(pre[b]) - 2) :
         /\ pre[b][k] \in hoisted
         /\ pre[b][k + 1] \notin hoisted
         /\ pre[b][k + 1] \in Range(examined)

(***************************************************************************)
(* C10: an invocation changes nothing but the block and position of the    *)
(* instructions it returns: the control-flow edges, every operand list,    *)
(* the instructions (each in exactly one place), and the block and         *)
(* relative order of the instructions not returned are as they were when   *)
(* it started.                                                             *)
(***************************************************************************)
C10_Frame ==
  ran =>
    /\ operands = preOperands
    /\ CFGEdges(blocks) = CFGEdges(pre)
    /\ UNION {Range(blocks[b]) : b \in Blocks} = AllInstrs
    /\ \A b \in Blocks : Cardinality(Range(blocks[b])) = Len(blocks[b])
    /\ \A b \in Blocks, c \in Blocks :
         b # c => Range(blocks[b]) \cap Range(blocks[c]) = {}
    /\ \A b \in Blocks :
         SelectSeq(blocks[b], LAMBDA i : i \notin hoisted)
           = SelectSeq(pre[b], LAMBDA i : i \notin hoisted)

C10_Witness ==
  /\ ran
  /\ Instructions # <<>>
  /\ \E i \in Range(examined) \ hoisted :
       opcode[i] \in EligibleCategories /\ BlockOf(blocks, i) = BlockOf(pre, i)

====
